---- MODULE Spec2Model ----
(***************************************************************************)
(* State-machine model of the simple file system in src/src/library/fs.c. *)
(*                                                                         *)
(* A block is an array of BLOCK_SIZE cells.  The C code overlays four      *)
(* views on one block (union Block: Data, Super, Inodes, Pointers); the    *)
(* model keeps the raw cells and derives each view from them, so a block   *)
(* written through one view and read through another behaves as in the    *)
(* code.  The layout is scaled: one cell stands for one byte of Data and   *)
(* for one 32-bit word of the other views.                                 *)
(***************************************************************************)
EXTENDS Integers, Sequences, FiniteSets, TLC

\* ---- layout parameters (sfs/fs.h, scaled) -------------------------------
BLOCK_SIZE == 40
POINTERS_PER_INODE == 2
MAGIC_NUMBER == 61680

\* words of one Inode record: Valid, Size, Direct[POINTERS_PER_INODE], Indirect
INODE_WORDS == 2 + POINTERS_PER_INODE + 1
INODES_PER_BLOCK == BLOCK_SIZE \div INODE_WORDS
POINTERS_PER_BLOCK == BLOCK_SIZE

\* ---- bounds of the model --------------------------------------------------
DiskBlocks == 6
MaxOps == 4
DataSeeds == 1

Cells == 0 .. (BLOCK_SIZE - 1)
ZeroBlock == [c \in Cells |-> 0]

\* ---- views of a block ------------------------------------------------------
SuperOf(b) ==
  [MagicNumber |-> b[0], Blocks |-> b[1], InodeBlocks |-> b[2], Inodes |-> b[3]]

InodeOf(b, j) ==
  [Valid    |-> b[j * INODE_WORDS],
   Size     |-> b[j * INODE_WORDS + 1],
   Direct   |-> [k \in 0 .. (POINTERS_PER_INODE - 1) |-> b[j * INODE_WORDS + 2 + k]],
   Indirect |-> b[j * INODE_WORDS + 2 + POINTERS_PER_INODE]]

\* memcpy of one Inode record into slot j of a block
PutInode(b, j, inode) ==
  [c \in Cells |->
     IF c \div INODE_WORDS # j \/ j >= INODES_PER_BLOCK THEN b[c]
     ELSE LET w == c % INODE_WORDS IN
          IF w = 0 THEN inode.Valid
          ELSE IF w = 1 THEN inode.Size
          ELSE IF w = 2 + POINTERS_PER_INODE THEN inode.Indirect
          ELSE inode.Direct[w - 2]]

\* ---- the caller's buffers ----------------------------------------------------
\* byte k of the caller's data buffer number seed
DataByte(seed, k) == ((seed + k) % 3) + 1
\* bytes a read past the end of the caller's buffer may deliver
GarbageBytes == {0, 3}
\* data[k] as writeInode reads it: the buffer holds len bytes, a read past
\* its end is undefined and yields the byte g
DataAt(seed, len, g, k) == IF k < len THEN DataByte(seed, k) ELSE g

\* ceil(Blocks / 10) as format and mount compute it
CeilTenth(n) == (n + 9) \div 10

VARIABLES
  disk,              \* the device's image: block index -> block
  disk_Blocks,       \* disk->Blocks, the size of the device
  disk_Mounts,       \* the device's mount counter
  Blocks,            \* mounted file system: copied from the superblock
  InodeBlocks,
  Inodes,
  mounted_disk,      \* "NULL", "disk" or "other"
  free_block_bitmap, \* block index -> TRUE when free
  status,            \* "running", or "crashed" after a fatal error
  last,              \* the last call: operation, arguments, result
  pre,               \* image and bitmap as they were before the last call
  ops,               \* number of inode-engine calls made
  other              \* a second device: its image d and its mount counter Mounts

vars == <<disk, disk_Blocks, disk_Mounts, Blocks, InodeBlocks, Inodes,
          mounted_disk, free_block_bitmap, status, last, pre, ops, other>>

\* ---- block device (external collaborator) -----------------------------------
\* The mounted file system as a value threaded through one call:
\* d: the device's image, bm: the bitmap, fault: "none", "device" (the
\* device's fatal out-of-range error) or "segv" (a store outside the bitmap
\* killed the process), oob: a bitmap index outside the array was used.
Mk(d, bm) == [d |-> d, bm |-> bm, fault |-> "none", oob |-> FALSE]

\* disk->readDisk: the block read (any block when the index is out of range:
\* the device has stopped the process by then, see ReadFault)
ReadDisk(m, b) == IF b \in DOMAIN m.d THEN m.d[b] ELSE ZeroBlock

\* the effect of disk->readDisk on the process: fatal when out of range
ReadFault(m, b) ==
  IF m.fault # "none" \/ b \in DOMAIN m.d THEN m
  ELSE [m EXCEPT !.fault = "device"]

\* disk->writeDisk
WriteDisk(m, b, data) ==
  IF m.fault # "none" THEN m
  ELSE IF b \in DOMAIN m.d THEN [m EXCEPT !.d[b] = data]
  ELSE [m EXCEPT !.fault = "device"]

\* free_block_bitmap[b] = v.  An index outside the array is undefined
\* behaviour: the store either kills the process (crash) or lands outside
\* the bitmap and leaves it as it was.
SetBitmap(m, b, v, crash) ==
  IF m.fault # "none" THEN m
  ELSE IF b \in DOMAIN m.bm THEN [m EXCEPT !.bm[b] = v]
  ELSE IF crash THEN [m EXCEPT !.fault = "segv", !.oob = TRUE]
  ELSE [m EXCEPT !.oob = TRUE]

\* ---- helper functions ---------------------------------------------------------
\* first-fit scan from block 0; the block found is marked used and zeroed
allocate_free_block(m) ==
  LET free == {i \in DOMAIN m.bm : m.bm[i]} IN
  IF free = {} THEN [m |-> m, block |-> -1]
  ELSE LET b == CHOOSE i \in free : \A k \in free : i <= k IN
       [m |-> WriteDisk([m EXCEPT !.bm[b] = FALSE], b, ZeroBlock), block |-> b]

\* load_inode: ok is FALSE when inumber >= Inodes
load_inode(m, inumber, ninodes) ==
  IF inumber >= ninodes THEN [ok |-> FALSE, m |-> m, inode |-> InodeOf(ZeroBlock, 0)]
  ELSE LET b == (inumber \div INODES_PER_BLOCK) + 1 IN
       [ok |-> TRUE, m |-> ReadFault(m, b),
        inode |-> InodeOf(ReadDisk(m, b), inumber % INODES_PER_BLOCK)]

\* save_inode: read-modify-write of the block that holds the record
save_inode(m, inumber, ninodes, inode) ==
  IF inumber >= ninodes THEN [ok |-> FALSE, m |-> m]
  ELSE LET b  == (inumber \div INODES_PER_BLOCK) + 1
           m1 == ReadFault(m, b)
       IN [ok |-> TRUE,
           m |-> WriteDisk(m1, b, PutInode(ReadDisk(m, b), inumber % INODES_PER_BLOCK, inode))]

\* ---- format -------------------------------------------------------------------
FormatSuper(n) ==
  [c \in Cells |->
     IF c = 0 THEN MAGIC_NUMBER
     ELSE IF c = 1 THEN n
     ELSE IF c = 2 THEN CeilTenth(n)
     ELSE IF c = 3 THEN CeilTenth(n) * INODES_PER_BLOCK
     ELSE 0]

FormatImage(n) == [b \in 0 .. (n - 1) |-> IF b = 0 THEN FormatSuper(n) ELSE ZeroBlock]

\* ---- mount ----------------------------------------------------------------------
\* the superblock checks of mount
SuperValid(sb) ==
  ~ (\/ sb.Inodes # sb.InodeBlocks * INODES_PER_BLOCK
     \/ sb.MagicNumber # MAGIC_NUMBER
     \/ sb.InodeBlocks # CeilTenth(sb.Blocks))

\* marks bitmap[ptrs[k]] used for k = from .. upto-1, skipping zero pointers
RECURSIVE MarkPointers(_, _, _, _, _)
MarkPointers(m, ptrs, k, upto, crash) ==
  IF k >= upto THEN m
  ELSE MarkPointers(IF ptrs[k] # 0 THEN SetBitmap(m, ptrs[k], FALSE, crash) ELSE m,
                    ptrs, k + 1, upto, crash)

\* the blocks one inode record marks used
MarkInode(m, inode, crash) ==
  IF inode.Valid = 0 THEN m
  ELSE LET m1 == MarkPointers(m, inode.Direct, 0, POINTERS_PER_INODE, crash) IN
       IF inode.Indirect = 0 THEN m1
       ELSE LET m2 == ReadFault(SetBitmap(m1, inode.Indirect, FALSE, crash), inode.Indirect)
            IN MarkPointers(m2, ReadDisk(m2, inode.Indirect), 0, POINTERS_PER_BLOCK, crash)

\* the walk over inode n, n+1, ... of the inode table (block-major, slot-minor)
RECURSIVE MarkInodes(_, _, _, _)
MarkInodes(m, n, ninodes, crash) ==
  IF n >= ninodes \/ m.fault # "none" THEN m
  ELSE LET b  == (n \div INODES_PER_BLOCK) + 1
           m1 == ReadFault(m, b)
       IN MarkInodes(MarkInode(m1, InodeOf(ReadDisk(m1, b), n % INODES_PER_BLOCK), crash),
                     n + 1, ninodes, crash)

\* marks bitmap[i] used for i = from .. upto
RECURSIVE MarkReserved(_, _, _, _)
MarkReserved(m, i, upto, crash) ==
  IF i > upto THEN m
  ELSE MarkReserved(SetBitmap(m, i, FALSE, crash), i + 1, upto, crash)

\* the free-block bitmap mount builds from the image d
BuildBitmap(d, nblocks, ninodeblocks, crash) ==
  LET m0 == Mk(d, [i \in 0 .. (nblocks - 1) |-> TRUE])
      m1 == MarkReserved(m0, 0, ninodeblocks, crash)
  IN MarkInodes(m1, 0, ninodeblocks * INODES_PER_BLOCK, crash)

\* ---- create ---------------------------------------------------------------------
NewInode ==
  [Valid |-> 1, Size |-> 0,
   Direct |-> [k \in 0 .. (POINTERS_PER_INODE - 1) |-> 0], Indirect |-> 0]

\* the inode record stored for inumber n in the image d
StoredInode(d, n) == InodeOf(d[(n \div INODES_PER_BLOCK) + 1], n % INODES_PER_BLOCK)

\* create without the write of the new record to the device
RECURSIVE create_NoPersist(_, _, _)
create_NoPersist(m, n, ninodes) ==
  IF n >= ninodes THEN [m |-> m, ret |-> -1]
  ELSE LET b == (n \div INODES_PER_BLOCK) + 1 IN
       IF b \notin DOMAIN m.d THEN [m |-> ReadFault(m, b), ret |-> -1]
       ELSE IF StoredInode(m.d, n).Valid = 0 THEN [m |-> m, ret |-> n]
       ELSE create_NoPersist(m, n + 1, ninodes)

\* [m, ret]: the scan of create from inumber n on; ret is the first inumber
\* whose record has Valid = 0, rewritten as NewInode, or -1
RECURSIVE create(_, _, _)
create(m, n, ninodes) ==
  IF n >= ninodes THEN [m |-> m, ret |-> -1]
  ELSE LET b == (n \div INODES_PER_BLOCK) + 1 IN
       IF b \notin DOMAIN m.d THEN [m |-> ReadFault(m, b), ret |-> -1]
       ELSE IF StoredInode(m.d, n).Valid = 0
       THEN [m |-> WriteDisk(m, b, PutInode(m.d[b], n % INODES_PER_BLOCK, NewInode)),
             ret |-> n]
       ELSE create(m, n + 1, ninodes)

\* ---- stat -----------------------------------------------------------------------
\* stat without the test of inode.Valid
stat_NoValidTest(m, inumber, ninodes) ==
  LET l == load_inode(m, inumber, ninodes) IN
  IF ~l.ok THEN -1
  ELSE l.inode.Size

stat(m, inumber, ninodes) ==
  LET l == load_inode(m, inumber, ninodes) IN
  IF ~l.ok THEN -1
  ELSE IF l.inode.Valid = 0 THEN -1
  ELSE l.inode.Size

\* ---- remove ----------------------------------------------------------------------
\* free_block_bitmap[ptrs[k]] = true for every non-zero ptrs[k], k < upto
RECURSIVE FreePointers(_, _, _, _, _)
FreePointers(m, ptrs, k, upto, crash) ==
  IF k >= upto THEN m
  ELSE FreePointers(IF ptrs[k] # 0 THEN SetBitmap(m, ptrs[k], TRUE, crash) ELSE m,
                    ptrs, k + 1, upto, crash)

\* the block removeInode walks as the indirect block: it is read with
\* inode.Indirect after that field was set to 0
RemoveIndirectIndex(inode) == 0

\* removeInode without the test of inode.Valid
removeInode_NoValidTest(m, inumber, ninodes, crash) ==
  LET l == load_inode(m, inumber, ninodes) IN
  IF ~l.ok THEN [m |-> m, ret |-> FALSE]
  ELSE IF l.m.fault # "none" THEN [m |-> l.m, ret |-> FALSE]
  ELSE
    LET m1 == FreePointers(l.m, l.inode.Direct, 0, POINTERS_PER_INODE, crash)
        ib == RemoveIndirectIndex(l.inode)
        m2 == IF l.inode.Indirect = 0 THEN m1
              ELSE LET a == ReadFault(SetBitmap(m1, l.inode.Indirect, TRUE, crash), ib)
                       b == FreePointers(a, ReadDisk(a, ib), 0, POINTERS_PER_BLOCK, crash)
                       z == [x \in Cells |-> IF x < POINTERS_PER_BLOCK THEN 0
                                              ELSE ReadDisk(a, ib)[x]]
                   IN WriteDisk(b, ib, z)
        cleared == [Valid |-> 0, Size |-> 0,
                    Direct |-> [k \in 0 .. (POINTERS_PER_INODE - 1) |-> 0],
                    Indirect |-> 0]
    IN IF m2.fault # "none" THEN [m |-> m2, ret |-> FALSE]
       ELSE [m |-> save_inode(m2, inumber, ninodes, cleared).m, ret |-> TRUE]

\* [m, ret]
removeInode(m, inumber, ninodes, crash) ==
  LET l == load_inode(m, inumber, ninodes) IN
  IF ~l.ok THEN [m |-> m, ret |-> FALSE]
  ELSE IF l.m.fault # "none" THEN [m |-> l.m, ret |-> FALSE]
  ELSE IF l.inode.Valid = 0 THEN [m |-> m, ret |-> FALSE]
  ELSE
    LET \* free direct blocks
        m1 == FreePointers(l.m, l.inode.Direct, 0, POINTERS_PER_INODE, crash)
        \* free indirect blocks
        ib == RemoveIndirectIndex(l.inode)
        m2 == IF l.inode.Indirect = 0 THEN m1
              ELSE LET a == ReadFault(SetBitmap(m1, l.inode.Indirect, TRUE, crash), ib)
                       b == FreePointers(a, ReadDisk(a, ib), 0, POINTERS_PER_BLOCK, crash)
                       z == [x \in Cells |-> IF x < POINTERS_PER_BLOCK THEN 0
                                              ELSE ReadDisk(a, ib)[x]]
                   IN WriteDisk(b, ib, z)
        \* free inode
        cleared == [Valid |-> 0, Size |-> 0,
                    Direct |-> [k \in 0 .. (POINTERS_PER_INODE - 1) |-> 0],
                    Indirect |-> 0]
    IN IF m2.fault # "none" THEN [m |-> m2, ret |-> FALSE]
       ELSE [m |-> save_inode(m2, inumber, ninodes, cleared).m, ret |-> TRUE]

\* ---- read ------------------------------------------------------------------------
\* the cells [from, to) of a block, as a sequence
Slice(blk, from, to) ==
  IF to <= from THEN <<>> ELSE [x \in 1 .. (to - from) |-> blk[from + x - 1]]

\* what indirect.Pointers[k] may hold for k >= POINTERS_PER_BLOCK: the read is
\* past the end of the block on the stack and is undefined; it yields a block
\* of the device (0) or an index outside it
GarbagePointers == {0, MAGIC_NUMBER}

\* the loop of readInode from block index i on: c holds the call's
\* offset, (clamped) length, startBlock, endBlock, inode, indirect block and
\* the pointer gptr a read past the end of the indirect block yields
RECURSIVE ReadLoop(_, _, _, _)
ReadLoop(m, c, i, buf) ==
  IF ~ (i < c.endBlock + 1 /\ Len(buf) < c.length) \/ m.fault # "none"
  THEN [m |-> m, buf |-> buf]
  ELSE
    LET ptr   == IF i < POINTERS_PER_INODE THEN c.inode.Direct[i]
                 ELSE IF i - POINTERS_PER_INODE < POINTERS_PER_BLOCK
                 THEN c.indirect[i - POINTERS_PER_INODE]
                 ELSE c.gptr
        m1    == ReadFault(m, ptr)
        blk   == ReadDisk(m1, ptr)
        start == IF i = c.startBlock THEN c.offset % BLOCK_SIZE ELSE 0
        end   == IF i = (c.offset + c.length) \div BLOCK_SIZE
                 THEN (c.offset + c.length) % BLOCK_SIZE ELSE BLOCK_SIZE
    IN IF m1.fault # "none" THEN [m |-> m1, buf |-> buf]
       ELSE ReadLoop(m1, c, i + 1, buf \o Slice(blk, start, end))

\* [m, ret, buf]: ret is the count returned, buf the bytes copied out
readInode(m, inumber, ninodes, length, offset, gptr) ==
  LET l == load_inode(m, inumber, ninodes) IN
  IF ~l.ok THEN [m |-> m, ret |-> -1, buf |-> <<>>]
  ELSE IF l.m.fault # "none" THEN [m |-> l.m, ret |-> -1, buf |-> <<>>]
  ELSE IF offset > l.inode.Size THEN [m |-> m, ret |-> -1, buf |-> <<>>]
  ELSE
    LET len      == IF length > l.inode.Size - offset THEN l.inode.Size - offset ELSE length
        endBlock == (offset + len) \div BLOCK_SIZE
        m1       == IF endBlock >= POINTERS_PER_INODE
                    THEN ReadFault(l.m, l.inode.Indirect) ELSE l.m
        c        == [offset |-> offset, length |-> len,
                     startBlock |-> offset \div BLOCK_SIZE, endBlock |-> endBlock,
                     inode |-> l.inode, gptr |-> gptr,
                     indirect |-> IF endBlock >= POINTERS_PER_INODE
                                  THEN ReadDisk(m1, l.inode.Indirect) ELSE ZeroBlock]
        r        == ReadLoop(m1, c, c.startBlock, <<>>)
    IN [m |-> r.m, ret |-> Len(r.buf), buf |-> r.buf]

\* ---- write -----------------------------------------------------------------------
\* MAX_SIZE of writeInode
MAX_SIZE(nblocks, ninodeblocks) == (nblocks - ninodeblocks - 1) * BLOCK_SIZE

\* the copy loop: block cells [start, end) take data[bw], data[bw+1], ...
CopyIn(blk, start, end, bw, c) ==
  [x \in Cells |->
     IF x >= start /\ x < end THEN DataAt(c.seed, c.buflen, c.g, bw + (x - start))
     ELSE blk[x]]

Copied(start, end) == IF end > start THEN end - start ELSE 0

\* "Update inode size", save_inode, return bytes_written
FinishWrite(m, inode, bw, c) ==
  LET sized == IF c.offset + bw > inode.Size
               THEN [inode EXCEPT !.Size = c.offset + c.length] ELSE inode
      s     == save_inode(m, c.inumber, c.ninodes, sized)
  IN [m |-> s.m, ret |-> IF s.ok THEN bw ELSE -1, short |-> FALSE]

\* the loop over the direct blocks, from block index i on
\* [m, inode, bw, returned, ret]
RECURSIVE DirectLoop(_, _, _, _, _)
DirectLoop(m, inode, bw, i, c) ==
  IF ~ (i < POINTERS_PER_INODE /\ bw < c.length) \/ m.fault # "none"
  THEN [m |-> m, inode |-> inode, bw |-> bw, returned |-> FALSE, ret |-> 0]
  ELSE
    LET a == IF inode.Direct[i] = 0 THEN allocate_free_block(m)
             ELSE [m |-> m, block |-> inode.Direct[i]]
    IN IF a.block = -1
       THEN LET f == FinishWrite(a.m, inode, bw, c) IN
            [m |-> f.m, inode |-> inode, bw |-> bw, returned |-> TRUE, ret |-> f.ret]
       ELSE
         LET ino   == [inode EXCEPT !.Direct[i] = a.block]
             m1    == ReadFault(a.m, a.block)
             blk   == ReadDisk(m1, a.block)
             start == IF i = c.startBlock THEN c.offset % BLOCK_SIZE ELSE 0
             end   == IF i # c.startBlock /\ i = c.endBlock
                      THEN (c.offset + c.length) % BLOCK_SIZE ELSE BLOCK_SIZE
             m2    == WriteDisk(m1, a.block, CopyIn(blk, start, end, bw, c))
         IN DirectLoop(m2, ino, bw + Copied(start, end), i + 1, c)

\* the loop over the pointers of the indirect block, from pointer i on
\* [m, indirect, bw, returned, ret]
RECURSIVE IndirectLoop(_, _, _, _, _, _)
IndirectLoop(m, inode, indirect, bw, i, c) ==
  IF ~ (i < POINTERS_PER_BLOCK /\ bw < c.length) \/ m.fault # "none"
  THEN [m |-> m, indirect |-> indirect, bw |-> bw, returned |-> FALSE, ret |-> 0]
  ELSE
    LET a == IF indirect[i] = 0 THEN allocate_free_block(m)
             ELSE [m |-> m, block |-> indirect[i]]
    IN IF a.block = -1
       THEN LET f == FinishWrite(a.m, inode, bw, c) IN
            [m |-> f.m, indirect |-> indirect, bw |-> bw, returned |-> TRUE, ret |-> f.ret]
       ELSE
         LET ind   == [indirect EXCEPT ![i] = a.block]
             m1    == ReadFault(a.m, a.block)
             blk   == ReadDisk(m1, a.block)
             end   == IF i = c.endBlock - POINTERS_PER_INODE
                      THEN (c.offset + c.length) % BLOCK_SIZE ELSE BLOCK_SIZE
             m2    == WriteDisk(m1, a.block, CopyIn(blk, 0, end, bw, c))
         IN IndirectLoop(m2, inode, ind, bw + Copied(0, end), i + 1, c)

\* the result of a return taken because allocate_free_block returned -1
Short(f) == [f EXCEPT !.short = TRUE]

\* the "Indirect blocks" part of writeInode  [m, ret, short]
WriteIndirect(m, inode, bw, c) ==
  LET a == IF inode.Indirect = 0 THEN allocate_free_block(m)
           ELSE [m |-> m, block |-> inode.Indirect]
  IN IF a.block = -1 THEN Short(FinishWrite(a.m, inode, bw, c))
     ELSE
       LET ino == [inode EXCEPT !.Indirect = a.block]
           m1  == ReadFault(a.m, a.block)
           r   == IndirectLoop(m1, ino, ReadDisk(m1, a.block), bw, 0, c)
       IN IF r.returned THEN [m |-> r.m, ret |-> r.ret, short |-> TRUE]
          ELSE FinishWrite(WriteDisk(r.m, a.block, r.indirect), ino, r.bw, c)

\* writeInode without the test of offset against the inode's Size
writeInode_NoOffsetTest(m, inumber, ninodes, nblocks, ninodeblocks, seed, length, offset, g) ==
  LET l == load_inode(m, inumber, ninodes) IN
  IF ~l.ok THEN [m |-> m, ret |-> -1, short |-> FALSE]
  ELSE IF l.m.fault # "none" THEN [m |-> l.m, ret |-> -1, short |-> FALSE]
  ELSE
    LET max == MAX_SIZE(nblocks, ninodeblocks)
        len == IF offset + length > max THEN max - offset ELSE length
        c   == [inumber |-> inumber, ninodes |-> ninodes, seed |-> seed,
                buflen |-> length, g |-> g, offset |-> offset, length |-> len,
                startBlock |-> offset \div BLOCK_SIZE,
                endBlock |-> (offset + len) \div BLOCK_SIZE]
        d   == DirectLoop(l.m, l.inode, 0, c.startBlock, c)
    IN IF d.returned \/ d.m.fault # "none"
       THEN [m |-> d.m, ret |-> d.ret, short |-> d.returned]
       ELSE IF c.endBlock >= POINTERS_PER_INODE THEN WriteIndirect(d.m, d.inode, d.bw, c)
       ELSE FinishWrite(d.m, d.inode, d.bw, c)

\* [m, ret, short]: seed names the caller's buffer of length bytes, g is the byte
\* a read past the end of that buffer delivers
writeInode(m, inumber, ninodes, nblocks, ninodeblocks, seed, length, offset, g) ==
  LET l == load_inode(m, inumber, ninodes) IN
  IF ~l.ok THEN [m |-> m, ret |-> -1, short |-> FALSE]
  ELSE IF l.m.fault # "none" THEN [m |-> l.m, ret |-> -1, short |-> FALSE]
  ELSE IF offset > l.inode.Size THEN [m |-> m, ret |-> -1, short |-> FALSE]
  ELSE
    LET max == MAX_SIZE(nblocks, ninodeblocks)
        len == IF offset + length > max THEN max - offset ELSE length
        c   == [inumber |-> inumber, ninodes |-> ninodes, seed |-> seed,
                buflen |-> length, g |-> g, offset |-> offset, length |-> len,
                startBlock |-> offset \div BLOCK_SIZE,
                endBlock |-> (offset + len) \div BLOCK_SIZE]
        d   == DirectLoop(l.m, l.inode, 0, c.startBlock, c)
    IN IF d.returned \/ d.m.fault # "none"
       THEN [m |-> d.m, ret |-> d.ret, short |-> d.returned]
       ELSE IF c.endBlock >= POINTERS_PER_INODE THEN WriteIndirect(d.m, d.inode, d.bw, c)
       ELSE FinishWrite(d.m, d.inode, d.bw, c)

\* ---- inputs of the model --------------------------------------------------------
\* inumbers tried: two slots of the table and the first one out of range
Inumbers == {0, 1, INODES_PER_BLOCK * CeilTenth(DiskBlocks)}
Lengths  == {0, 1, 3 * BLOCK_SIZE, 4 * BLOCK_SIZE}
Offsets  == {0, 1, 3 * BLOCK_SIZE}
Seeds    == 0 .. (DataSeeds - 1)

\* the bytes of the caller's buffer number seed, as a sequence
DataSeq(seed, n) == [x \in 1 .. n |-> DataByte(seed, x - 1)]

\* a call and its result; a boolean result is 1 (true) or 0 (false); short
\* tells that a write returned because no block could be allocated
Call(op, inumber, length, offset, seed, ret, buf) ==
  [op |-> op, inumber |-> inumber, length |-> length, offset |-> offset,
   seed |-> seed, ret |-> ret, buf |-> buf, short |-> FALSE]

Snapshot == [d |-> disk, bm |-> free_block_bitmap]

Mounted == mounted_disk = "disk" /\ status = "running"

\* ---- the state machine -----------------------------------------------------------
Init ==
  /\ disk_Blocks = DiskBlocks
  /\ disk = [b \in 0 .. (DiskBlocks - 1) |-> ZeroBlock]
  /\ disk_Mounts = 0
  /\ Blocks = 0
  /\ InodeBlocks = 0
  /\ Inodes = 0
  /\ mounted_disk = "NULL"
  /\ free_block_bitmap = [i \in {} |-> TRUE]
  /\ status = "running"
  /\ last = Call("init", 0, 0, 0, 0, 0, <<>>)
  /\ pre = [d |-> [b \in 0 .. (DiskBlocks - 1) |-> ZeroBlock], bm |-> [i \in {} |-> TRUE]]
  /\ ops = 0
  /\ other = [d |-> [b \in 0 .. (DiskBlocks - 1) |-> ZeroBlock], Mounts |-> 0]

\* the state after an inode-engine call that left the file system as m
Installed(m, call) ==
  /\ disk' = m.d
  /\ free_block_bitmap' = m.bm
  /\ status' = IF m.fault = "none" THEN "running" ELSE "crashed"
  /\ last' = call
  /\ pre' = Snapshot
  /\ ops' = ops + 1
  /\ UNCHANGED <<disk_Blocks, disk_Mounts, Blocks, InodeBlocks, Inodes, mounted_disk, other>>

Format ==
  /\ status = "running"
  /\ IF disk_Mounts > 0
     THEN /\ last' = Call("format", 0, 0, 0, 0, 0, <<>>)
          /\ UNCHANGED disk
     ELSE /\ last' = Call("format", 0, 0, 0, 0, 1, <<>>)
          /\ disk' = FormatImage(disk_Blocks)
  /\ pre' = Snapshot
  /\ UNCHANGED <<disk_Blocks, disk_Mounts, Blocks, InodeBlocks, Inodes, mounted_disk,
                 free_block_bitmap, status, ops, other>>

Mount(crash) ==
  /\ status = "running"
  /\ pre' = Snapshot
  /\ IF disk_Mounts > 0 \/ ~SuperValid(SuperOf(disk[0]))
     THEN /\ last' = Call("mount", 0, 0, 0, 0, 0, <<>>)
          /\ UNCHANGED <<disk, disk_Blocks, disk_Mounts, Blocks, InodeBlocks, Inodes,
                         mounted_disk, free_block_bitmap, status, ops, other>>
     ELSE LET sb == SuperOf(disk[0])
              m  == BuildBitmap(disk, sb.Blocks, sb.InodeBlocks, crash)
          IN /\ mounted_disk' = "disk"
             /\ disk_Mounts' = disk_Mounts + 1
             /\ Blocks' = sb.Blocks
             /\ InodeBlocks' = sb.InodeBlocks
             /\ Inodes' = sb.Inodes
             /\ free_block_bitmap' = m.bm
             /\ status' = IF m.fault = "none" THEN "running" ELSE "crashed"
             /\ last' = Call("mount", 0, 0, 0, 0, 1, <<>>)
             /\ UNCHANGED <<disk, disk_Blocks, ops, other>>

Create ==
  /\ Mounted
  /\ LET r == create(Mk(disk, free_block_bitmap), 0, InodeBlocks * INODES_PER_BLOCK)
     IN Installed(r.m, Call("create", 0, 0, 0, 0, r.ret, <<>>))

Remove(inumber, crash) ==
  /\ Mounted
  /\ LET r == removeInode(Mk(disk, free_block_bitmap), inumber, Inodes, crash)
     IN Installed(r.m, Call("remove", inumber, 0, 0, 0, IF r.ret THEN 1 ELSE 0, <<>>))

Stat(inumber) ==
  /\ Mounted
  /\ LET m == Mk(disk, free_block_bitmap)
     IN Installed(load_inode(m, inumber, Inodes).m,
                  Call("stat", inumber, 0, 0, 0, stat(m, inumber, Inodes), <<>>))

Read(inumber, length, offset, gptr) ==
  /\ Mounted
  /\ LET r == readInode(Mk(disk, free_block_bitmap), inumber, Inodes, length, offset, gptr)
     IN Installed(r.m, Call("read", inumber, length, offset, 0, r.ret, r.buf))

Write(inumber, seed, length, offset, g) ==
  /\ Mounted
  /\ LET r == writeInode(Mk(disk, free_block_bitmap), inumber, Inodes, Blocks,
                         InodeBlocks, seed, length, offset, g)
     IN Installed(r.m, [Call("write", inumber, length, offset, seed, r.ret, <<>>)
                          EXCEPT !.short = r.short])

\* at most MaxOps calls of the inode engine are made
Next ==
  \/ Format
  \/ \E crash \in BOOLEAN : Mount(crash)
  \/ ops < MaxOps /\ Create
  \/ \E i \in Inumbers, crash \in BOOLEAN : ops < MaxOps /\ Remove(i, crash)
  \/ \E i \in Inumbers : ops < MaxOps /\ Stat(i)
  \/ \E i \in Inumbers, n \in Lengths, o \in Offsets, p \in GarbagePointers :
       ops < MaxOps /\ Read(i, n, o, p)
  \/ \E i \in Inumbers, s \in Seeds, n \in Lengths, o \in Offsets, g \in GarbageBytes :
       ops < MaxOps /\ Write(i, s, n, o, g)

Spec == Init /\ [][Next]_vars

\* ---- notions the properties are stated with ------------------------------------
\* the maximum file size the pointer layout allows
MAX_FILE_SIZE == (POINTERS_PER_INODE + POINTERS_PER_BLOCK) * BLOCK_SIZE

\* the data region [1 + InodeBlocks, Blocks)
DataRegion == (1 + InodeBlocks) .. (Blocks - 1)

Max(a, b) == IF a >= b THEN a ELSE b

\* the non-zero direct pointers of a record
DirectRefs(inode) ==
  {inode.Direct[k] : k \in 0 .. (POINTERS_PER_INODE - 1)} \ {0}

\* the non-zero pointers stored in the record's indirect block in image d
IndirectRefs(d, inode) ==
  IF inode.Indirect = 0 \/ inode.Indirect \notin DOMAIN d THEN {}
  ELSE {d[inode.Indirect][k] : k \in 0 .. (POINTERS_PER_BLOCK - 1)} \ {0}

\* every block the record references in image d
Refs(d, inode) ==
  DirectRefs(inode) \cup ({inode.Indirect} \ {0}) \cup IndirectRefs(d, inode)

\* the number of non-zero pointer slots of the record in image d
RefSlots(d, inode) ==
  Cardinality({k \in 0 .. (POINTERS_PER_INODE - 1) : inode.Direct[k] # 0})
  + (IF inode.Indirect = 0 THEN 0 ELSE 1)
  + (IF inode.Indirect = 0 \/ inode.Indirect \notin DOMAIN d THEN 0
     ELSE Cardinality({k \in 0 .. (POINTERS_PER_BLOCK - 1) : d[inode.Indirect][k] # 0}))

\* the inumbers whose stored record is valid
ValidInumbers(d) == {n \in 0 .. (Inodes - 1) : StoredInode(d, n).Valid # 0}

\* the blocks reachable from some valid inode
Reachable(d) == UNION {Refs(d, StoredInode(d, n)) : n \in ValidInumbers(d)}

FreeCount(bm) == Cardinality({b \in DOMAIN bm : bm[b]})

\* the last call was op on an inode that was valid when the call was made
OnValidInode(op) ==
  /\ Mounted
  /\ last.op = op
  /\ last.inumber < Inodes
  /\ StoredInode(pre.d, last.inumber).Valid # 0

\* the size of the last call's inode before and after the call
SizeBefore == StoredInode(pre.d, last.inumber).Size
SizeAfter  == StoredInode(disk, last.inumber).Size

\* the last call was a write the contract accepts: valid inode, offset <= Size,
\* offset + length <= MAX_FILE_SIZE
AcceptedWrite ==
  /\ OnValidInode("write")
  /\ last.offset <= SizeBefore
  /\ last.offset + last.length <= MAX_FILE_SIZE

\* ---- the claims -----------------------------------------------------------------

\* C1: write/read round trip.  After an accepted write that returned n, a
\* read of n bytes at the same offset returns n and delivers the first n
\* bytes of the data written.
C1_WriteReadRoundTrip ==
  (AcceptedWrite /\ last.ret >= 0) =>
    \A p \in GarbagePointers :
    LET r == readInode(Mk(disk, free_block_bitmap), last.inumber, Inodes,
                       last.ret, last.offset, p)
    IN /\ r.m.fault = "none"
       /\ r.ret = last.ret
       /\ \A k \in 1 .. last.ret :
            k <= last.length /\ k <= Len(r.buf) /\ r.buf[k] = DataByte(last.seed, k - 1)

\* C2: write return count.  An accepted write never returns more than the
\* requested length, and returns exactly the length when the free blocks
\* suffice for every block up to offset + length and the indirect block.
C2_WriteReturnCount ==
  AcceptedWrite =>
    /\ last.ret <= last.length
    /\ (FreeCount(pre.bm) >= ((last.offset + last.length) \div BLOCK_SIZE) + 2
          => last.ret = last.length)

\* C3: size after write.  After a write on a valid inode that returned
\* n >= 0 the persisted Size is max(old Size, offset + n).
C3_SizeAfterWrite ==
  (OnValidInode("write") /\ last.ret >= 0) =>
    SizeAfter = Max(SizeBefore, last.offset + last.ret)

\* C4: bitmap consistency.  In a mounted file system a block of the data
\* region is used in the bitmap iff it is reachable from a valid inode, and
\* the reconstruction of mount yields the bitmap in memory.
C4_BitmapConsistency ==
  Mounted =>
    /\ \A b \in DataRegion : (~free_block_bitmap[b]) <=> (b \in Reachable(disk))
    /\ BuildBitmap(disk, Blocks, InodeBlocks, FALSE).bm = free_block_bitmap

\* C5: short write on disk full.  A write on a valid inode that stops
\* because no block can be allocated returns the count written so far, and
\* every block it marked used is referenced by the persisted inode or by its
\* persisted indirect block.
C5_ShortWriteConsistent ==
  (OnValidInode("write") /\ last.short) =>
    /\ last.ret >= 0
    /\ \A b \in DOMAIN free_block_bitmap :
         (pre.bm[b] /\ ~free_block_bitmap[b])
           => b \in Refs(disk, StoredInode(disk, last.inumber))

\* C6: remove releases everything.  After a successful remove every block
\* the inode referenced before the call is free in the bitmap, and the
\* persisted record has Valid = 0, Size = 0 and all pointers 0.
C6_RemoveReleasesAll ==
  (OnValidInode("remove") /\ last.ret = 1) =>
    /\ \A b \in Refs(pre.d, StoredInode(pre.d, last.inumber)) :
         b \in DOMAIN free_block_bitmap /\ free_block_bitmap[b]
    /\ StoredInode(disk, last.inumber) = InodeOf(ZeroBlock, 0)

\* C7: superblock immutability.  No call other than format changes block 0.
C7_SuperblockImmutable ==
  (last.op \notin {"init", "format"}) => disk[0] = pre.d[0]

\* C8: reserved blocks are never free.  In a mounted file system the
\* superblock and every inode-table block are used in the bitmap, and
\* allocate returns none of them.
C8_ReservedNeverFree ==
  Mounted =>
    /\ \A i \in 0 .. InodeBlocks : ~free_block_bitmap[i]
    /\ allocate_free_block(Mk(disk, free_block_bitmap)).block \notin 0 .. InodeBlocks

\* C9: pointer sanity.  Every non-zero pointer of a valid inode, and every
\* non-zero pointer in its indirect block, lies in the data region.
C9_PointerSanity ==
  Mounted =>
    \A n \in ValidInumbers(disk) : Refs(disk, StoredInode(disk, n)) \subseteq DataRegion

\* C10: no double allocation.  Two distinct valid inodes reference disjoint
\* sets of blocks, and no block appears twice among one inode's pointers.
C10_NoDoubleAllocation ==
  Mounted =>
    /\ \A a, b \in ValidInumbers(disk) :
         a # b => Refs(disk, StoredInode(disk, a)) \cap Refs(disk, StoredInode(disk, b)) = {}
    /\ \A a \in ValidInumbers(disk) :
         RefSlots(disk, StoredInode(disk, a)) = Cardinality(Refs(disk, StoredInode(disk, a)))

\* ---- notions of the claims about one inode record ---------------------------
\* the number of file blocks Size covers: ceil(Size / BLOCK_SIZE)
SizeBlocks(inode) == (inode.Size + BLOCK_SIZE - 1) \div BLOCK_SIZE

\* the pointer of file block i of the record in image d, as readInode
\* follows it; 0 when the record has no indirect block for i
BlockPointer(d, inode, i) ==
  IF i < POINTERS_PER_INODE THEN inode.Direct[i]
  ELSE IF inode.Indirect = 0 \/ inode.Indirect \notin DOMAIN d THEN 0
  ELSE IF i - POINTERS_PER_INODE >= POINTERS_PER_BLOCK THEN 0
  ELSE d[inode.Indirect][i - POINTERS_PER_INODE]

\* C11: Size is backed by pointers.  In a mounted file system every valid
\* inode has a non-zero pointer for every block index below
\* ceil(Size / BLOCK_SIZE).
C11_SizeBackedByPointers ==
  Mounted =>
    \A n \in ValidInumbers(disk) :
      \A i \in 0 .. (SizeBlocks(StoredInode(disk, n)) - 1) :
        BlockPointer(disk, StoredInode(disk, n), i) # 0

\* ---- a device larger than one file can cover ---------------------------------
\* The same program on a device whose data region holds more blocks than the
\* pointers of one inode can reference (POINTERS_PER_INODE direct pointers and
\* POINTERS_PER_BLOCK pointers of the indirect block).
BigDiskBlocks == 49
BigOps == 3

BigInumbers == {0, INODES_PER_BLOCK * CeilTenth(BigDiskBlocks)}
BigLengths  == {1, (POINTERS_PER_INODE + POINTERS_PER_BLOCK + 1) * BLOCK_SIZE}
BigOffsets  == {0}

BigInit ==
  /\ disk_Blocks = BigDiskBlocks
  /\ disk = [b \in 0 .. (BigDiskBlocks - 1) |-> ZeroBlock]
  /\ disk_Mounts = 0
  /\ Blocks = 0
  /\ InodeBlocks = 0
  /\ Inodes = 0
  /\ mounted_disk = "NULL"
  /\ free_block_bitmap = [i \in {} |-> TRUE]
  /\ status = "running"
  /\ last = Call("init", 0, 0, 0, 0, 0, <<>>)
  /\ pre = [d |-> [b \in 0 .. (BigDiskBlocks - 1) |-> ZeroBlock], bm |-> [i \in {} |-> TRUE]]
  /\ ops = 0
  /\ other = [d |-> [b \in 0 .. (DiskBlocks - 1) |-> ZeroBlock], Mounts |-> 0]

BigNext ==
  \/ Format
  \/ \E crash \in BOOLEAN : Mount(crash)
  \/ ops < BigOps /\ Create
  \/ \E i \in BigInumbers, crash \in BOOLEAN : ops < BigOps /\ Remove(i, crash)
  \/ \E i \in BigInumbers : ops < BigOps /\ Stat(i)
  \/ \E i \in BigInumbers, n \in BigLengths, o \in BigOffsets, p \in GarbagePointers :
       ops < BigOps /\ Read(i, n, o, p)
  \/ \E i \in BigInumbers, s \in Seeds, n \in BigLengths, o \in BigOffsets, g \in GarbageBytes :
       ops < BigOps /\ Write(i, s, n, o, g)

BigSpec == BigInit /\ [][BigNext]_vars

\* C12: size bound.  In a mounted file system, on a device of any size, every
\* valid inode has Size <= (POINTERS_PER_INODE + POINTERS_PER_BLOCK) * BLOCK_SIZE.
C12_SizeBound ==
  Mounted =>
    \A n \in ValidInumbers(disk) : StoredInode(disk, n).Size <= MAX_FILE_SIZE

\* the last call was op on a bad inode: inumber >= Inodes, or a stored record
\* with Valid = 0 when the call was made
OnBadInode(op) ==
  /\ last.op = op
  /\ \/ last.inumber >= Inodes
     \/ StoredInode(pre.d, last.inumber).Valid = 0

\* the last call left the device's image and the bitmap as they were
Untouched == disk = pre.d /\ free_block_bitmap = pre.bm

\* C13: write on a bad inode fails.  A write on an inumber >= Inodes or on a
\* record with Valid = 0 returns -1, allocates no block and leaves the disk
\* and the bitmap unchanged.
C13_WriteBadInodeFails ==
  OnBadInode("write") => (last.ret = -1 /\ Untouched)

\* C14: read on a bad inode fails.  A read on an inumber >= Inodes or on a
\* record with Valid = 0 returns -1, for every offset.
C14_ReadBadInodeFails ==
  OnBadInode("read") => last.ret = -1

\* C15: write past end of file is rejected.  On a valid inode a write with
\* offset > Size returns -1 and leaves the disk (the inode record included)
\* and the bitmap unchanged; a write with offset = Size is accepted: it does
\* not return -1, Size does not fall, and Size grows when bytes were written.
C15_WritePastEOF ==
  OnValidInode("write") =>
    /\ (last.offset > SizeBefore => (last.ret = -1 /\ Untouched))
    /\ (last.offset = SizeBefore =>
          /\ last.ret >= 0
          /\ SizeAfter >= SizeBefore
          /\ (last.ret > 0 => SizeAfter > SizeBefore))

\* a write past the end of a non-empty file was rejected
C15_Witness ==
  /\ OnValidInode("write")
  /\ SizeBefore > 0
  /\ last.offset > SizeBefore
  /\ last.length > 0
  /\ last.ret = -1

\* the last call was a read on an inode that was valid when the call was made
ReadOnValidInode ==
  /\ last.op = "read"
  /\ last.inumber < Inodes
  /\ StoredInode(pre.d, last.inumber).Valid # 0

Min(a, b) == IF a <= b THEN a ELSE b

\* C16: read count.  On a valid inode a read with offset <= Size returns
\* min(length, Size - offset), 0 for length 0 at offset = Size included, and a
\* read with offset > Size returns -1.
C16_ReadCount ==
  ReadOnValidInode =>
    /\ (last.offset <= SizeBefore =>
          (status = "running" /\ last.ret = Min(last.length, SizeBefore - last.offset)))
    /\ (last.offset > SizeBefore => last.ret = -1)

\* C17: stat.  stat returns -1 for an inumber >= Inodes and for a record with
\* Valid = 0, and the record's Size otherwise; the inumber of a successful
\* remove has stat -1 and a freshly created inode has stat 0.
C17_Stat ==
  /\ (last.op = "stat" =>
        /\ status = "running"
        /\ Untouched
        /\ last.ret = (IF last.inumber >= Inodes THEN -1
                       ELSE IF StoredInode(pre.d, last.inumber).Valid = 0 THEN -1
                       ELSE StoredInode(pre.d, last.inumber).Size))
  /\ ((Mounted /\ last.op = "remove" /\ last.ret = 1) =>
        stat(Mk(disk, free_block_bitmap), last.inumber, Inodes) = -1)
  /\ ((Mounted /\ last.op = "create" /\ last.ret >= 0) =>
        stat(Mk(disk, free_block_bitmap), last.ret, Inodes) = 0)

\* stat returned the size of a non-empty file
C17_Witness ==
  /\ last.op = "stat"
  /\ last.inumber < Inodes
  /\ StoredInode(pre.d, last.inumber).Valid # 0
  /\ last.ret > 0
  /\ last.ret = SizeBefore

\* C18: remove on a bad inode fails.  A remove on an inumber >= Inodes or on a
\* record with Valid = 0 returns false and leaves the disk and the bitmap
\* unchanged; in particular a second remove of an inumber just removed fails.
C18_RemoveBadInodeFails ==
  /\ (OnBadInode("remove") => (last.ret = 0 /\ Untouched /\ status = "running"))
  /\ ((Mounted /\ last.op = "remove" /\ last.ret = 1) =>
        \A crash \in BOOLEAN :
          LET r == removeInode(Mk(disk, free_block_bitmap), last.inumber, Inodes, crash)
          IN ~r.ret /\ r.m = Mk(disk, free_block_bitmap))

\* a remove failed on a record with Valid = 0 after an earlier remove had
\* released a written block
C18_Witness ==
  /\ OnBadInode("remove")
  /\ last.inumber < Inodes
  /\ last.ret = 0
  /\ \E b \in DataRegion : free_block_bitmap[b] /\ disk[b] # ZeroBlock

\* ---- many calls on small files --------------------------------------------------
\* The same program and device as Spec, with more calls and only one-byte
\* writes at offset 0, so that the inode table fills up.
TableOps == 9

TableInumbers == {0, 1}
TableLengths  == {1}

TableNext ==
  \/ Format
  \/ \E crash \in BOOLEAN : Mount(crash)
  \/ ops < TableOps /\ Create
  \/ \E i \in TableInumbers, crash \in BOOLEAN : ops < TableOps /\ Remove(i, crash)
  \/ \E i \in TableInumbers : ops < TableOps /\ Stat(i)
  \/ \E i \in TableInumbers, n \in TableLengths, g \in GarbageBytes :
       ops < TableOps /\ Write(i, 0, n, 0, g)

TableSpec == Init /\ [][TableNext]_vars

\* the inumbers whose stored record has Valid = 0 in image d
FreeInumbers(d) == {n \in 0 .. (Inodes - 1) : StoredInode(d, n).Valid = 0}

\* C19: create.  create returns the lowest inumber whose stored record has
\* Valid = 0 and persists that record as {Valid = 1, Size = 0, pointers 0},
\* leaving every other inode record and the bitmap unchanged; when every
\* slot is valid it returns -1 and changes nothing.
C19_Create ==
  last.op = "create" =>
    /\ status = "running"
    /\ free_block_bitmap = pre.bm
    /\ IF FreeInumbers(pre.d) = {}
       THEN last.ret = -1 /\ disk = pre.d
       ELSE /\ last.ret \in FreeInumbers(pre.d)
            /\ \A n \in FreeInumbers(pre.d) : last.ret <= n
            /\ StoredInode(disk, last.ret) = NewInode
            /\ \A n \in 0 .. (Inodes - 1) :
                 n # last.ret => StoredInode(disk, n) = StoredInode(pre.d, n)

\* create returned -1 on a full inode table
C19_Witness ==
  /\ last.op = "create"
  /\ FreeInumbers(pre.d) = {}
  /\ last.ret = -1

\* the stored inode records of image d
InodeTable(d) == [n \in 0 .. (Inodes - 1) |-> StoredInode(d, n)]

\* create, then remove of the inumber r.ret that the create c returned, from
\* the mounted state m0: r is the result of the remove
RoundTrip(m0, c, r) ==
  /\ r.m.fault = "none"
  /\ r.ret
  /\ r.m.bm = m0.bm
  /\ InodeTable(r.m.d) = InodeTable(m0.d)
  /\ create(r.m, 0, Inodes).ret = c.ret

\* C20: create/remove round trip.  From every mounted state, a create that
\* returns i followed by remove(i) leaves the bitmap and every inode record as
\* they were before the create, and the next create returns i again; the same
\* holds when a write to i is made between the create and the remove.
C20_CreateRemoveRoundTrip ==
  Mounted =>
    LET m0 == Mk(disk, free_block_bitmap)
        c  == create(m0, 0, Inodes)
    IN (c.ret >= 0 /\ c.m.fault = "none") =>
         \A crash \in BOOLEAN :
           /\ RoundTrip(m0, c, removeInode(c.m, c.ret, Inodes, crash))
           /\ \A n \in Lengths, g \in GarbageBytes :
                LET w == writeInode(c.m, c.ret, Inodes, Blocks, InodeBlocks, 0, n, 0, g)
                IN RoundTrip(m0, c, removeInode(w.m, c.ret, Inodes, crash))

\* ---- a device that already holds an image -----------------------------------------
\* The same program on a device whose block 0 holds any superblock: an image
\* made for a device of another size, or with a wrong magic number, inode
\* block count or inode count.  All other blocks are zero.
ImageOps == 2

ImageMagics      == {MAGIC_NUMBER, 0}
ImageBlocks      == {DiskBlocks - 1, DiskBlocks, DiskBlocks + 1}
ImageInodeBlocks == {1, 2}
ImageInodes      == {INODES_PER_BLOCK, 2 * INODES_PER_BLOCK}

ImageSuper(mg, nb, ib, ni) ==
  [c \in Cells |->
     IF c = 0 THEN mg ELSE IF c = 1 THEN nb ELSE IF c = 2 THEN ib ELSE IF c = 3 THEN ni ELSE 0]

ImageInit ==
  /\ disk_Blocks = DiskBlocks
  /\ \E mg \in ImageMagics, nb \in ImageBlocks, ib \in ImageInodeBlocks, ni \in ImageInodes :
       disk = [b \in 0 .. (DiskBlocks - 1) |->
                 IF b = 0 THEN ImageSuper(mg, nb, ib, ni) ELSE ZeroBlock]
  /\ disk_Mounts = 0
  /\ Blocks = 0
  /\ InodeBlocks = 0
  /\ Inodes = 0
  /\ mounted_disk = "NULL"
  /\ free_block_bitmap = [i \in {} |-> TRUE]
  /\ status = "running"
  /\ last = Call("init", 0, 0, 0, 0, 0, <<>>)
  /\ pre = [d |-> disk, bm |-> free_block_bitmap]
  /\ ops = 0
  /\ other = [d |-> [b \in 0 .. (DiskBlocks - 1) |-> ZeroBlock], Mounts |-> 0]

ImageNext ==
  \/ Format
  \/ \E crash \in BOOLEAN : Mount(crash)
  \/ ops < ImageOps /\ Create
  \/ \E i \in Inumbers, crash \in BOOLEAN : ops < ImageOps /\ Remove(i, crash)
  \/ \E i \in Inumbers : ops < ImageOps /\ Stat(i)
  \/ \E i \in Inumbers, n \in Lengths, o \in Offsets, p \in GarbagePointers :
       ops < ImageOps /\ Read(i, n, o, p)
  \/ \E i \in Inumbers, s \in Seeds, n \in Lengths, o \in Offsets, g \in GarbageBytes :
       ops < ImageOps /\ Write(i, s, n, o, g)

ImageSpec == ImageInit /\ [][ImageNext]_vars

\* the superblock sb is one that mount must refuse on a device of n blocks
BadSuper(sb, n) ==
  \/ sb.MagicNumber # MAGIC_NUMBER
  \/ sb.Blocks # n
  \/ sb.InodeBlocks # (sb.Blocks + 9) \div 10
  \/ sb.Inodes # sb.InodeBlocks * INODES_PER_BLOCK

\* C21: mount validation.  A mount of a device whose superblock has a wrong
\* magic number, Blocks # the device's size, InodeBlocks # ceil(Blocks / 10) or
\* Inodes # InodeBlocks * INODES_PER_BLOCK returns false and leaves the mount
\* counter, the mount state and the bitmap unchanged.
C21_MountValidation ==
  [][(last'.op = "mount" /\ BadSuper(SuperOf(disk[0]), disk_Blocks)) =>
       /\ last'.ret = 0
       /\ UNCHANGED <<disk_Mounts, Blocks, InodeBlocks, Inodes, mounted_disk,
                      free_block_bitmap>>]_vars

\* ---- two devices --------------------------------------------------------------------
\* The same program with a second device of the same size: format and mount
\* take the device as their argument.  The calls of the inode engine are
\* followed while the first device is the mounted one.
TwoOps == 2

\* format(other)
FormatOther ==
  /\ status = "running"
  /\ IF other.Mounts > 0
     THEN /\ last' = Call("format_other", 0, 0, 0, 0, 0, <<>>)
          /\ UNCHANGED other
     ELSE /\ last' = Call("format_other", 0, 0, 0, 0, 1, <<>>)
          /\ other' = [other EXCEPT !.d = FormatImage(DiskBlocks)]
  /\ pre' = Snapshot
  /\ UNCHANGED <<disk, disk_Blocks, disk_Mounts, Blocks, InodeBlocks, Inodes, mounted_disk,
                 free_block_bitmap, status, ops>>

\* mount(other)
MountOther(crash) ==
  /\ status = "running"
  /\ pre' = Snapshot
  /\ IF other.Mounts > 0 \/ ~SuperValid(SuperOf(other.d[0]))
     THEN /\ last' = Call("mount_other", 0, 0, 0, 0, 0, <<>>)
          /\ UNCHANGED <<disk, disk_Blocks, disk_Mounts, Blocks, InodeBlocks, Inodes,
                         mounted_disk, free_block_bitmap, status, ops, other>>
     ELSE LET sb == SuperOf(other.d[0])
              m  == BuildBitmap(other.d, sb.Blocks, sb.InodeBlocks, crash)
          IN /\ mounted_disk' = "other"
             /\ other' = [other EXCEPT !.Mounts = other.Mounts + 1]
             /\ Blocks' = sb.Blocks
             /\ InodeBlocks' = sb.InodeBlocks
             /\ Inodes' = sb.Inodes
             /\ free_block_bitmap' = m.bm
             /\ status' = IF m.fault = "none" THEN "running" ELSE "crashed"
             /\ last' = Call("mount_other", 0, 0, 0, 0, 1, <<>>)
             /\ UNCHANGED <<disk, disk_Blocks, disk_Mounts, ops>>

TwoNext ==
  \/ Format
  \/ \E crash \in BOOLEAN : Mount(crash)
  \/ FormatOther
  \/ \E crash \in BOOLEAN : MountOther(crash)
  \/ ops < TwoOps /\ Create
  \/ \E i \in Inumbers, crash \in BOOLEAN : ops < TwoOps /\ Remove(i, crash)
  \/ \E i \in Inumbers : ops < TwoOps /\ Stat(i)
  \/ \E i \in Inumbers, n \in Lengths, o \in Offsets, p \in GarbagePointers :
       ops < TwoOps /\ Read(i, n, o, p)
  \/ \E i \in Inumbers, s \in Seeds, n \in Lengths, o \in Offsets, g \in GarbageBytes :
       ops < TwoOps /\ Write(i, s, n, o, g)

TwoSpec == Init /\ [][TwoNext]_vars

\* C22: single mount.  While a file system is mounted, every further mount,
\* of the same device or of another, validly formatted, unmounted device,
\* returns false and leaves the mount state and the bitmap unchanged.
C22_SingleMount ==
  [][(mounted_disk # "NULL" /\ last'.op \in {"mount", "mount_other"}) =>
       /\ last'.ret = 0
       /\ UNCHANGED <<Blocks, InodeBlocks, Inodes, mounted_disk, free_block_bitmap>>]_vars

\* ---- devices of every small size ------------------------------------------------------
\* The same program on a device of 1 .. DiskBlocks blocks.
SizeOps == 2

DiskSizes == 1 .. DiskBlocks

SizesInit ==
  /\ disk_Blocks \in DiskSizes
  /\ disk = [b \in 0 .. (disk_Blocks - 1) |-> ZeroBlock]
  /\ disk_Mounts = 0
  /\ Blocks = 0
  /\ InodeBlocks = 0
  /\ Inodes = 0
  /\ mounted_disk = "NULL"
  /\ free_block_bitmap = [i \in {} |-> TRUE]
  /\ status = "running"
  /\ last = Call("init", 0, 0, 0, 0, 0, <<>>)
  /\ pre = [d |-> disk, bm |-> free_block_bitmap]
  /\ ops = 0
  /\ other = [d |-> [b \in 0 .. (DiskBlocks - 1) |-> ZeroBlock], Mounts |-> 0]

SizesNext ==
  \/ Format
  \/ \E crash \in BOOLEAN : Mount(crash)
  \/ ops < SizeOps /\ Create
  \/ \E i \in Inumbers, crash \in BOOLEAN : ops < SizeOps /\ Remove(i, crash)
  \/ \E i \in Inumbers : ops < SizeOps /\ Stat(i)
  \/ \E i \in Inumbers, n \in Lengths, o \in Offsets, p \in GarbagePointers :
       ops < SizeOps /\ Read(i, n, o, p)
  \/ \E i \in Inumbers, s \in Seeds, n \in Lengths, o \in Offsets, g \in GarbageBytes :
       ops < SizeOps /\ Write(i, s, n, o, g)

SizesSpec == SizesInit /\ [][SizesNext]_vars

\* the image format must leave on a device of n blocks: the superblock with
\* Blocks = n, InodeBlocks = ceil(n / 10), Inodes = InodeBlocks *
\* INODES_PER_BLOCK, and zeros everywhere else
FreshImage(n) ==
  [b \in 0 .. (n - 1) |->
     IF b = 0 THEN ImageSuper(MAGIC_NUMBER, n, (n + 9) \div 10,
                              ((n + 9) \div 10) * INODES_PER_BLOCK)
     ELSE ZeroBlock]

\* C23: format then mount.  On an unmounted device of any positive size
\* format returns true and leaves the fresh image; the mount that follows
\* returns true with a bitmap in which exactly blocks 0 .. InodeBlocks are
\* used, and with no valid inode.
C23_FormatThenMount ==
  /\ ((last.op = "format" /\ disk_Mounts = 0) =>
        (last.ret = 1 /\ disk = FreshImage(disk_Blocks)))
  /\ ((last.op = "mount" /\ pre.d = FreshImage(disk_Blocks)
         /\ (disk_Mounts = 0 \/ last.ret = 1)) =>
        /\ last.ret = 1
        /\ status = "running"
        /\ mounted_disk = "disk"
        /\ free_block_bitmap =
             [i \in 0 .. (disk_Blocks - 1) |-> i > (disk_Blocks + 9) \div 10]
        /\ ValidInumbers(disk) = {})

\* the last call was a remove of a valid inode that had an indirect block
RemovedWithIndirect ==
  /\ last.op = "remove"
  /\ last.inumber < Inodes
  /\ StoredInode(pre.d, last.inumber).Valid # 0
  /\ StoredInode(pre.d, last.inumber).Indirect # 0

\* C24: remove ordering.  In the remove of an inode with Indirect # 0 the
\* block read and walked as the indirect block is the one the inode's
\* Indirect field named before it was cleared: the blocks that block lists
\* are free afterwards, and no block other than the inode's table block and
\* its indirect block is rewritten.
C24_RemoveOrdering ==
  RemovedWithIndirect =>
    LET inode == StoredInode(pre.d, last.inumber) IN
      /\ RemoveIndirectIndex(inode) = inode.Indirect
      /\ status = "running" =>
           /\ \A b \in IndirectRefs(pre.d, inode) \cap DOMAIN free_block_bitmap :
                free_block_bitmap[b]
           /\ \A b \in DOMAIN disk :
                (b # inode.Indirect /\ b # (last.inumber \div INODES_PER_BLOCK) + 1)
                  => disk[b] = pre.d[b]

\* byte k of the file of the record in image d, as a read looks it up; -1
\* where the record has no block for it
FileByte(d, inode, k) ==
  LET p == BlockPointer(d, inode, k \div BLOCK_SIZE)
  IN IF p = 0 \/ p \notin DOMAIN d THEN -1 ELSE d[p][k % BLOCK_SIZE]

\* C25: write frame.  A write on a valid inode that returned n changes only
\* the file's bytes in [offset, offset + n): every other byte of the file,
\* the rest of a partially covered first or last block included, is what it
\* was before the call.
C25_WriteFrame ==
  (OnValidInode("write") /\ last.ret >= 0) =>
    \A k \in 0 .. (SizeBefore - 1) :
      (k < last.offset \/ k >= last.offset + last.ret) =>
        FileByte(disk, StoredInode(disk, last.inumber), k)
          = FileByte(pre.d, StoredInode(pre.d, last.inumber), k)

\* ---- writes that end on the direct/indirect boundary -------------------------------
\* The same program and device as Spec, with writes of 2 and 3 blocks.
AllocOps == 3

AllocInumbers == {0}
AllocLengths  == {1, POINTERS_PER_INODE * BLOCK_SIZE, (POINTERS_PER_INODE + 1) * BLOCK_SIZE}
AllocOffsets  == {0, POINTERS_PER_INODE * BLOCK_SIZE}

AllocNext ==
  \/ Format
  \/ \E crash \in BOOLEAN : Mount(crash)
  \/ ops < AllocOps /\ Create
  \/ \E i \in AllocInumbers, crash \in BOOLEAN : ops < AllocOps /\ Remove(i, crash)
  \/ \E i \in AllocInumbers : ops < AllocOps /\ Stat(i)
  \/ \E i \in AllocInumbers, n \in AllocLengths, o \in AllocOffsets, p \in GarbagePointers :
       ops < AllocOps /\ Read(i, n, o, p)
  \/ \E i \in AllocInumbers, s \in Seeds, n \in AllocLengths, o \in AllocOffsets,
        g \in GarbageBytes :
       ops < AllocOps /\ Write(i, s, n, o, g)

AllocSpec == Init /\ [][AllocNext]_vars

\* the file block indices the byte range [offset, offset + n) touches
Touched(offset, n) == (offset \div BLOCK_SIZE) .. ((offset + n - 1) \div BLOCK_SIZE)

\* the blocks the last call took from the bitmap
NewBlocks == {b \in DOMAIN free_block_bitmap \cap DOMAIN pre.bm :
                pre.bm[b] /\ ~free_block_bitmap[b]}

\* C26: exact lazy allocation.  A write on a valid inode that returned n > 0
\* without running out of blocks allocates one block for each touched file
\* block index that had no pointer and stores it at that index, and allocates
\* the indirect block iff a touched index is >= POINTERS_PER_INODE and
\* Indirect was 0; a write ending exactly at POINTERS_PER_INODE * BLOCK_SIZE
\* allocates no indirect block.
C26_ExactAllocation ==
  (OnValidInode("write") /\ last.ret > 0 /\ ~last.short) =>
    LET before  == StoredInode(pre.d, last.inumber)
        after   == StoredInode(disk, last.inumber)
        touched == Touched(last.offset, last.ret)
        missing == {k \in touched : BlockPointer(pre.d, before, k) = 0}
        needInd == before.Indirect = 0 /\ \E k \in touched : k >= POINTERS_PER_INODE
    IN /\ Cardinality(NewBlocks) = Cardinality(missing) + (IF needInd THEN 1 ELSE 0)
       /\ \A k \in missing : BlockPointer(disk, after, k) \in NewBlocks
       /\ (after.Indirect # before.Indirect) <=> needInd
       /\ (last.offset + last.ret = POINTERS_PER_INODE * BLOCK_SIZE /\ before.Indirect = 0)
            => after.Indirect = 0

\* ---- two files ------------------------------------------------------------------------
\* The same program and device as Spec, with two calls more and fewer inputs.
IsoOps == 6

IsoInumbers == {0, 1, 2}
IsoLengths  == {1, (POINTERS_PER_INODE + 1) * BLOCK_SIZE}

IsoNext ==
  \/ Format
  \/ \E crash \in BOOLEAN : Mount(crash)
  \/ ops < IsoOps /\ Create
  \/ \E i \in IsoInumbers, crash \in BOOLEAN : ops < IsoOps /\ Remove(i, crash)
  \/ \E i \in IsoInumbers, n \in IsoLengths, g \in GarbageBytes :
       ops < IsoOps /\ Write(i, 0, n, 0, g)

IsoSpec == Init /\ [][IsoNext]_vars

\* the blocks of the inode table
TableBlocks == 1 .. InodeBlocks

\* every record of the inode table of image d is one create, remove or a
\* write on a created inode leaves: Valid is 0 or 1, and a record with
\* Valid = 0 has no pointer
CleanTable(d) ==
  \A n \in 0 .. (Inodes - 1) :
    LET r == StoredInode(d, n) IN
      /\ r.Valid \in {0, 1}
      /\ r.Valid = 0 =>
           (r.Indirect = 0 /\ \A k \in 0 .. (POINTERS_PER_INODE - 1) : r.Direct[k] = 0)

\* C27: inode isolation.  A write or a remove on a valid inode a leaves the
\* record and the content of every other valid inode b as they were, and no
\* block the call allocates is a block of the inode table or a block b
\* references (stated for inode tables no write on a removed or never
\* created inode has touched).
C27_InodeIsolation ==
  ((OnValidInode("write") \/ OnValidInode("remove")) /\ CleanTable(pre.d)) =>
    \A b \in ValidInumbers(pre.d) \ {last.inumber} :
      LET rec == StoredInode(pre.d, b) IN
        /\ StoredInode(disk, b) = rec
        /\ \A k \in 0 .. (rec.Size - 1) :
             FileByte(disk, rec, k) = FileByte(pre.d, rec, k)
        /\ NewBlocks \cap (TableBlocks \cup Refs(pre.d, rec)) = {}

\* C28: index range safety.  On a device of any positive size no call
\* passes the device a block index outside [0, Blocks) or uses a bitmap index
\* outside the array: the process is never stopped by the device's range
\* check or by a store outside the bitmap.
C28_IndexRangeSafety ==
  status = "running"

====
